---- MODULE Spec2Model ----
(***************************************************************************)
(* Model of octoprint_bambu_printer/printer/file_system/list_3mf_files.py  *)
(*                                                                         *)
(* The script is sequential.  Each procedure is a sequence of steps, one   *)
(* per external call (connect, list, download, archive open, entry read,   *)
(* size and date query); pc is the position in the running procedure.      *)
(* The FTPS collaborator and the archive library are opaque: the outcome   *)
(* of every call (a value or an exception) is chosen when the call is      *)
(* made.                                                                   *)
(***************************************************************************)
EXTENDS Integers, Sequences, FiniteSets, TLC

\* ------------------------------------------------------------------ bounds
\* Longest listing list_files returns to list_3mf_files.
MaxFiles == 2
\* Most entries in one downloaded archive.
MaxEntries == 3
\* Most files and directories below the root of the remote tree.
MaxNodes == 3

\* ------------------------------------------------------------------ names
\* A file name or path is the sequence of its characters.
\* The entry names the script names (lines 232-236).
PLATE ==
  <<"M", "e", "t", "a", "d", "a", "t", "a", "/", "p", "l", "a", "t", "e",
    "_", "1", ".", "p", "n", "g">>
TOP ==
  <<"M", "e", "t", "a", "d", "a", "t", "a", "/", "t", "o", "p", "_", "1",
    ".", "p", "n", "g">>
SETTINGS ==
  <<"M", "e", "t", "a", "d", "a", "t", "a", "/", "m", "o", "d", "e", "l",
    "_", "s", "e", "t", "t", "i", "n", "g", "s", ".", "c", "o", "n", "f",
    "i", "g">>
\* An entry outside Metadata/ whose base name equals a required one.
AUXTHUMB ==
  <<"A", "u", "x", "i", "l", "i", "a", "r", "i", "e", "s", "/", ".", "t",
    "h", "u", "m", "b", "n", "a", "i", "l", "s", "/", "p", "l", "a", "t",
    "e", "_", "1", ".", "p", "n", "g">>

\* Entry names the modelled archives draw from.
EntryOrder == <<PLATE, TOP, SETTINGS, AUXTHUMB>>
EntryNames == { EntryOrder[k] : k \in 1..Len(EntryOrder) }

\* Remote archive paths; two of them share a base name.
PathA == <<"/", "a", ".", "3", "m", "f">>
PathCacheA == <<"/", "c", "a", "c", "h", "e", "/", "a", ".", "3", "m", "f">>
PathB == <<"/", "b", ".", "3", "m", "f">>
RemotePaths == {PathA, PathCacheA, PathB}

\* No remote path chosen yet.
NoPath == << >>

\* The string literals of the script.
MetadataPrefix == <<"M", "e", "t", "a", "d", "a", "t", "a", "/">>
DotPng == <<".", "p", "n", "g">>
DotJpg == <<".", "j", "p", "g">>
DotJpeg == <<".", "j", "p", "e", "g">>
ThumbnailWord == <<"t", "h", "u", "m", "b", "n", "a", "i", "l">>
ThumbnailsDir == <<"t", "h", "u", "m", "b", "n", "a", "i", "l", "s">>
PRINTER_IP == "192.168.178.70"
ACCESS_CODE == "33055062"

\* Sequences over S of length at most n without a repeated element.
SeqsNoDup(S, n) ==
  { s \in UNION { [1..k -> S] : k \in 0..n } :
      \A i, j \in 1..Len(s) : i # j => s[i] # s[j] }

\* What a finished download leaves in the temporary file: a ZIP archive
\* (its filelist, entry names distinct) or bytes that are no ZIP archive.
NoContent == [kind |-> "none", filelist |-> << >>]
NotZip == [kind |-> "notzip", filelist |-> << >>]
Archives == { [kind |-> "zip", filelist |-> s] : s \in SeqsNoDup(EntryNames, MaxEntries) }
Contents == Archives \cup {NotZip}

\* extract_required_files reads an archive only through file_info, a dict
\* keyed by entry name (line 252), so the order of the filelist cannot
\* influence it: one filelist per set of names stands for all its orders.
InEntryOrder(s) ==
  \A i, j \in 1..Len(s) :
    i < j => \E a, b \in 1..Len(EntryOrder) :
               a < b /\ EntryOrder[a] = s[i] /\ EntryOrder[b] = s[j]
ErfContents == { c \in Contents : InEntryOrder(c.filelist) }

\* Results list_files(folder="/", extensions=".3mf") can give.
Listings == SeqsNoDup(RemotePaths, MaxFiles)

\* The bytes of entry filename in the archive stored at remote_path.
EntryData(remote_path, filename) == <<remote_path, filename>>
\* A file opened with 'wb' and never written: zero bytes.
EmptyData == << >>

\* Outcomes of copying one entry (lines 262-263, 155-157): the copy succeeds;
\* opening the entry or the destination raises; reading the entry raises
\* after the destination was opened (created, truncated).
EntryOutcomes == {"ok", "open_fail", "read_fail"}

\* ------------------------------------------------------------------ state
VARIABLES
  prog,       \* the procedure called by the script's user
  pc,         \* position in the running procedure
  connected,  \* the FTPS connection is open
  files,      \* list_3mf_files: the listing
  idx,        \* list_3mf_files: index of the file being processed
  cur,        \* remote_path of the running download-and-process procedure
  tmpCount,   \* temporary files created so far (the newest is tmpCount)
  tmpFiles,   \* temporary files that exist on the local filesystem
  zip,        \* what the last download wrote into the temporary file
  todo,       \* extract_required_files: required names not yet iterated
  entry,      \* examine/thumbnails: index of the next entry of the filelist
  exc,        \* exception propagating out of the current block
  result,     \* how the last download-and-process procedure ended
  dirs,       \* output directories that exist
  written,    \* files in output directories: [dir, name, data]
  thumbnails, \* extract_thumbnails: the list it returns
  log,        \* records given to logger
  out,        \* lines given to print
  attempts,   \* history: remote paths extract_required_files was called with
  outcomes,   \* history: how each of these calls ended
  before,     \* history: the output files when the running call started
  stack,      \* print_directory_tree: the active calls, innermost last
  remote,     \* the remote tree as far as listings have shown it
  calls,      \* history: the remote calls of the tree walker, in order
  faults      \* history: the remote calls of the tree walker that raised,
              \* but for size queries on directories

vars == <<prog, pc, connected, files, idx, cur, tmpCount, tmpFiles, zip, todo,
          entry, exc, result, dirs, written, thumbnails, log, out, attempts,
          outcomes, before, stack, remote, calls, faults>>

\* ------------------------------------------------------------------ helpers
\* str.lower(), character by character.
UpperCase == <<"A", "B", "C", "D", "E", "F", "G", "H", "I", "J", "K", "L", "M",
               "N", "O", "P", "Q", "R", "S", "T", "U", "V", "W", "X", "Y", "Z">>
LowerCase == <<"a", "b", "c", "d", "e", "f", "g", "h", "i", "j", "k", "l", "m",
               "n", "o", "p", "q", "r", "s", "t", "u", "v", "w", "x", "y", "z">>
lower_char(c) ==
  IF \E k \in 1..Len(UpperCase) : UpperCase[k] = c
  THEN LowerCase[CHOOSE k \in 1..Len(UpperCase) : UpperCase[k] = c]
  ELSE c
lower(s) == [k \in 1..Len(s) |-> lower_char(s[k])]

\* s.startswith(p), s.endswith(p) and "p in s".
startswith(s, p) == Len(p) <= Len(s) /\ SubSeq(s, 1, Len(p)) = p
endswith(s, p) == Len(p) <= Len(s) /\ SubSeq(s, Len(s) - Len(p) + 1, Len(s)) = p
contains(s, p) ==
  \E k \in 0..(Len(s) - Len(p)) : SubSeq(s, k + 1, k + Len(p)) = p

\* s.rfind(c) + 1: the last position of character c in s, 0 when absent.
rfind(s, c) ==
  IF \E k \in 1..Len(s) : s[k] = c
  THEN CHOOSE k \in 1..Len(s) : s[k] = c /\ \A j \in (k + 1)..Len(s) : s[j] # c
  ELSE 0

\* os.path.basename(p): what follows the last "/".
basename(p) == SubSeq(p, rfind(p, "/") + 1, Len(p))

\* os.path.splitext(p)[0]: p up to its last dot, when that dot lies in the
\* last component and a character other than a dot precedes it there.
splitext_root(p) ==
  LET sep == rfind(p, "/")
      dot == rfind(p, ".")
  IN IF dot > sep /\ \E k \in (sep + 1)..(dot - 1) : p[k] # "."
     THEN SubSeq(p, 1, dot - 1)
     ELSE p

\* os.path.splitext(os.path.basename(remote_path))[0]
base_name(remote_path) == splitext_root(basename(remote_path))

required_files == {PLATE, TOP, SETTINGS}

\* Mutant of file_info: entries are matched by base name, not by full name.
file_info_by_basename(z) ==
  { f \in EntryNames :
      \E i \in 1..Len(z.filelist) : basename(z.filelist[i]) = basename(f) }

\* file_info: the names of zip_file.filelist.
file_info(z) == { z.filelist[i] : i \in 1..Len(z.filelist) }

\* info.filename.startswith("Metadata/") and info.filename.endswith(".png")
IsMetadataPng(filename) ==
  startswith(filename, MetadataPrefix) /\ endswith(filename, DotPng)

\* 'thumbnail' in filename.lower() and filename.lower().endswith(image ext)
IsThumbnail(filename) ==
  /\ contains(lower(filename), ThumbnailWord)
  /\ \E suffix \in {DotPng, DotJpg, DotJpeg} : endswith(lower(filename), suffix)

\* Mutant of WriteFile: a file that already exists is left as it is.
WriteFileKeepExisting(w, dir, name, data) ==
  IF \E x \in w : x.dir = dir /\ x.name = name
  THEN w
  ELSE w \cup { [dir |-> dir, name |-> name, data |-> data] }

\* open(save_path, 'wb') followed by write: replaces the file's content.
WriteFile(w, dir, name, data) ==
  { x \in w : ~(x.dir = dir /\ x.name = name) }
    \cup { [dir |-> dir, name |-> name, data |-> data] }

\* Mutant of TempFileExit: the file is deleted on the normal exit only.
TempFileExitOnSuccessOnly(existing, id, raising) ==
  IF raising THEN existing ELSE existing \ {id}

\* Leaving "with tempfile.NamedTemporaryFile(delete=True)": the file is
\* closed and deleted, on normal exit and on an exception alike.
TempFileExit(existing, id, raising) == existing \ {id}

LogRec(level, msg, subject) == [level |-> level, msg |-> msg, subject |-> subject]
Line(kind, prefix, subject) == [kind |-> kind, prefix |-> prefix, subject |-> subject]

\* ------------------------------------------------------------------ init
Programs == {"main", "list_3mf_files", "examine_3mf_structure", "extract_thumbnails"}

\* main and list_3mf_files open the connection themselves; the other
\* procedures are handed an open one.
OpensConnection(p) == p \in {"main", "list_3mf_files"}

Init ==
  /\ prog \in Programs
  /\ pc = IF prog = "main" THEN "main"
          ELSE IF prog = "list_3mf_files" THEN "l3mf_connect"
          ELSE IF prog = "examine_3mf_structure" THEN "exam_makedirs"
          ELSE "thumb_tempfile"
  /\ connected = ~OpensConnection(prog)
  /\ files = << >>
  /\ idx = 0
  /\ cur \in IF OpensConnection(prog) THEN {NoPath} ELSE RemotePaths
  /\ tmpCount = 0
  /\ tmpFiles = {}
  /\ zip = NoContent
  /\ todo = {}
  /\ entry = 0
  /\ exc = "none"
  /\ result = "none"
  /\ dirs = {}
  /\ written = {}
  /\ thumbnails = << >>
  /\ log = << >>
  /\ out = << >>
  /\ attempts = << >>
  /\ outcomes = << >>
  /\ before = {}
  /\ stack = << >>
  /\ remote = {}
  /\ calls = << >>
  /\ faults = {}

\* ------------------------------------------------------------------ main
\* Lines 272-280: the configuration check, then list_3mf_files.
Main ==
  /\ pc = "main"
  /\ IF PRINTER_IP = "192.168.1.100" \/ ACCESS_CODE = "12345678"
     THEN /\ log' = Append(log, LogRec("ERROR", "Please configure", ""))
          /\ pc' = "done"
     ELSE /\ log' = Append(log, LogRec("INFO", "Connecting to printer", PRINTER_IP))
          /\ pc' = "l3mf_connect"
  /\ UNCHANGED <<prog, connected, files, idx, cur, tmpCount, tmpFiles, zip,
                 todo, entry, exc, result, dirs, written, thumbnails, out,
                 attempts, outcomes, before, stack, remote, calls, faults>>

\* ------------------------------------------------------- list_3mf_files
\* Line 102: file_list.get_ftps_client(); on failure lines 116-120.
L3mfConnect ==
  /\ pc = "l3mf_connect"
  /\ \E ok \in BOOLEAN :
       IF ok
       THEN /\ connected' = TRUE
            /\ pc' = "l3mf_list"
            /\ log' = log
       ELSE /\ connected' = FALSE
            /\ pc' = "done"
            /\ log' = log \o << LogRec("ERROR", "Connection error", "connect"),
                                LogRec("INFO", "Total operation completed", "") >>
  /\ UNCHANGED <<prog, files, idx, cur, tmpCount, tmpFiles, zip, todo, entry,
                 exc, result, dirs, written, thumbnails, out, attempts,
                 outcomes, before, stack, remote, calls, faults>>

\* Lines 104-107: list_files; a failure leaves the with block and reaches
\* the handler of line 116.
L3mfList ==
  /\ pc = "l3mf_list"
  /\ \E ok \in BOOLEAN :
       IF ok
       THEN \E listing \in Listings :
              /\ files' = listing
              /\ idx' = 1
              /\ connected' = connected
              /\ pc' = "l3mf_loop"
              /\ log' = Append(log, LogRec("INFO", "Found", Len(listing)))
       ELSE /\ files' = files
            /\ idx' = idx
            /\ connected' = FALSE
            /\ pc' = "done"
            /\ log' = log \o << LogRec("ERROR", "Connection error", "list_files"),
                                LogRec("INFO", "Total operation completed", "") >>
  /\ UNCHANGED <<prog, cur, tmpCount, tmpFiles, zip, todo, entry, exc, result,
                 dirs, written, thumbnails, out, attempts, outcomes, before,
                 stack, remote, calls, faults>>

\* Lines 109-112: the next file of the listing, or the end of the loop
\* (lines 119-120).
L3mfLoop ==
  /\ pc = "l3mf_loop"
  /\ IF idx <= Len(files)
     THEN /\ cur' = files[idx]
          /\ attempts' = Append(attempts, files[idx])
          /\ before' = written
          /\ log' = Append(log, LogRec("INFO", "Processing", files[idx]))
          /\ result' = "none"
          /\ pc' = "erf_makedirs"
          /\ connected' = connected
     ELSE /\ connected' = FALSE
          /\ log' = Append(log, LogRec("INFO", "Total operation completed", ""))
          /\ pc' = "done"
          /\ UNCHANGED <<cur, attempts, result, before>>
  /\ UNCHANGED <<prog, files, idx, tmpCount, tmpFiles, zip, todo, entry, exc,
                 dirs, written, thumbnails, out, outcomes, stack, remote,
                 calls, faults>>

\* Mutant of AfterFile: a failed file ends the loop.
AfterFileAbort(i, n, res) == IF res = "raised" THEN n + 1 ELSE i + 1

\* Lines 109-114: the handler of line 113 swallows the exception, and the
\* loop goes on with the next file.
AfterFile(i, n, res) == i + 1

\* Lines 113-114: the per-file handler, then the next iteration; the
\* finished call's archive is gone.
L3mfAfter ==
  /\ pc = "l3mf_after"
  /\ log' = IF result = "raised"
            THEN Append(log, LogRec("ERROR", "Failed to process", cur))
            ELSE log
  /\ idx' = AfterFile(idx, Len(files), result)
  /\ zip' = NoContent
  /\ before' = {}
  /\ pc' = "l3mf_loop"
  /\ UNCHANGED <<prog, connected, files, cur, tmpCount, tmpFiles, todo, entry,
                 exc, result, dirs, written, thumbnails, out, attempts,
                 outcomes, stack, remote, calls, faults>>

\* ------------------------------------------------- extract_required_files
\* Lines 238-240.
ErfMakedirs ==
  /\ pc = "erf_makedirs"
  /\ dirs' = dirs \cup {base_name(cur)}
  /\ pc' = "erf_tempfile"
  /\ UNCHANGED <<prog, connected, files, idx, cur, tmpCount, tmpFiles, zip,
                 todo, entry, exc, result, written, thumbnails, log, out,
                 attempts, outcomes, before, stack, remote, calls, faults>>

\* Line 243.
ErfTempFile ==
  /\ pc = "erf_tempfile"
  /\ tmpCount' = tmpCount + 1
  /\ tmpFiles' = tmpFiles \cup {tmpCount + 1}
  /\ zip' = NoContent
  /\ exc' = "none"
  /\ pc' = "erf_download"
  /\ UNCHANGED <<prog, connected, files, idx, cur, todo, entry, result, dirs,
                 written, thumbnails, log, out, attempts, outcomes, before,
                 stack, remote, calls, faults>>

\* Lines 244-247.
ErfDownload ==
  /\ pc = "erf_download"
  /\ \E ok \in BOOLEAN :
       IF ok
       THEN \E c \in ErfContents :
              /\ zip' = c
              /\ exc' = exc
              /\ log' = Append(log, LogRec("INFO", "Downloaded", cur))
              /\ pc' = "erf_openzip"
       ELSE /\ zip' = zip
            /\ exc' = "download"
            /\ log' = log
            /\ pc' = "erf_exit"
  /\ UNCHANGED <<prog, connected, files, idx, cur, tmpCount, tmpFiles, todo,
                 entry, result, dirs, written, thumbnails, out, attempts,
                 outcomes, before, stack, remote, calls, faults>>

\* Lines 250-256: ZipFile(temp_file.name, 'r') raises on a non-ZIP file and
\* nothing in extract_required_files catches it.
ErfOpenZip ==
  /\ pc = "erf_openzip"
  /\ IF zip.kind = "zip"
     THEN /\ todo' = required_files
          /\ exc' = exc
          /\ log' = Append(log, LogRec("INFO", "Extracting", Cardinality(required_files)))
          /\ pc' = "erf_extract"
     ELSE /\ todo' = todo
          /\ exc' = "BadZipFile"
          /\ log' = log
          /\ pc' = "erf_exit"
  /\ UNCHANGED <<prog, connected, files, idx, cur, tmpCount, tmpFiles, zip,
                 entry, result, dirs, written, thumbnails, out, attempts,
                 outcomes, before, stack, remote, calls, faults>>

\* Lines 259-263: one iteration over the set required_files (a set of
\* strings iterates in an order that varies from run to run).
ErfExtract ==
  /\ pc = "erf_extract"
  /\ todo # {}
  /\ \E filename \in todo :
       /\ todo' = todo \ {filename}
       /\ IF filename \in file_info(zip)
          THEN \E o \in EntryOutcomes :
                 /\ written' =
                      IF o = "ok"
                      THEN WriteFile(written, base_name(cur), basename(filename),
                                     EntryData(cur, filename))
                      ELSE IF o = "read_fail"
                      THEN WriteFile(written, base_name(cur), basename(filename),
                                     EmptyData)
                      ELSE written
                 /\ exc' = IF o = "ok" THEN exc ELSE "entry"
                 /\ pc' = IF o = "ok" THEN pc ELSE "erf_exit"
          ELSE /\ written' = written
               /\ exc' = exc
               /\ pc' = pc
  /\ UNCHANGED <<prog, connected, files, idx, cur, tmpCount, tmpFiles, zip,
                 entry, result, dirs, thumbnails, log, out, attempts,
                 outcomes, before, stack, remote, calls, faults>>

\* Lines 265-267, still inside the temporary file's with block.
ErfExtractDone ==
  /\ pc = "erf_extract"
  /\ todo = {}
  /\ log' = log \o << LogRec("INFO", "Extraction completed", cur),
                      LogRec("INFO", "Total processing time", cur) >>
  /\ pc' = "erf_exit"
  /\ UNCHANGED <<prog, connected, files, idx, cur, tmpCount, tmpFiles, zip,
                 todo, entry, exc, result, dirs, written, thumbnails, out,
                 attempts, outcomes, before, stack, remote, calls, faults>>

\* Leaving the with block of line 243, then returning or raising to
\* list_3mf_files (line 112).
ErfExit ==
  /\ pc = "erf_exit"
  /\ tmpFiles' = TempFileExit(tmpFiles, tmpCount, exc # "none")
  /\ result' = IF exc = "none" THEN "returned" ELSE "raised"
  /\ outcomes' = Append(outcomes, IF exc = "none" THEN "returned" ELSE "raised")
  /\ todo' = {}
  /\ pc' = "l3mf_after"
  /\ UNCHANGED <<prog, connected, files, idx, cur, tmpCount, zip, entry, exc,
                 dirs, written, thumbnails, log, out, attempts, before, stack,
                 remote, calls, faults>>

\* -------------------------------------------------- examine_3mf_structure
\* Lines 132-133.
ExamMakedirs ==
  /\ pc = "exam_makedirs"
  /\ dirs' = dirs \cup {ThumbnailsDir}
  /\ pc' = "exam_tempfile"
  /\ UNCHANGED <<prog, connected, files, idx, cur, tmpCount, tmpFiles, zip,
                 todo, entry, exc, result, written, thumbnails, log, out,
                 attempts, outcomes, before, stack, remote, calls, faults>>

\* Line 135.
ExamTempFile ==
  /\ pc = "exam_tempfile"
  /\ tmpCount' = tmpCount + 1
  /\ tmpFiles' = tmpFiles \cup {tmpCount + 1}
  /\ zip' = NoContent
  /\ exc' = "none"
  /\ pc' = "exam_download"
  /\ UNCHANGED <<prog, connected, files, idx, cur, todo, entry, result, dirs,
                 written, thumbnails, log, out, attempts, outcomes, before,
                 stack, remote, calls, faults>>

\* Lines 136-140: the download is outside the try of line 141.
ExamDownload ==
  /\ pc = "exam_download"
  /\ \E ok \in BOOLEAN :
       IF ok
       THEN \E c \in Contents :
              /\ zip' = c
              /\ exc' = exc
              /\ out' = out \o << Line("Downloading", << >>, cur),
                                  Line("Examining", << >>, cur),
                                  Line("Rule", << >>, cur) >>
              /\ pc' = "exam_openzip"
       ELSE /\ zip' = zip
            /\ exc' = "download"
            /\ out' = Append(out, Line("Downloading", << >>, cur))
            /\ pc' = "exam_exit"
  /\ UNCHANGED <<prog, connected, files, idx, cur, tmpCount, tmpFiles, todo,
                 entry, result, dirs, written, thumbnails, log, attempts,
                 outcomes, before, stack, remote, calls, faults>>

\* Lines 141-142 and 161-162: ZipFile(temp_file.name) inside the try.
ExamOpenZip ==
  /\ pc = "exam_openzip"
  /\ IF zip.kind = "zip"
     THEN /\ entry' = 1
          /\ out' = out
          /\ pc' = "exam_entry"
     ELSE /\ entry' = entry
          /\ out' = Append(out, Line("Error examining ZIP", << >>, cur))
          /\ pc' = "exam_exit"
  /\ UNCHANGED <<prog, connected, files, idx, cur, tmpCount, tmpFiles, zip,
                 todo, exc, result, dirs, written, thumbnails, log, attempts,
                 outcomes, before, stack, remote, calls, faults>>

\* Lines 144-159: one entry of zip_file.filelist; a failing copy is caught
\* by the handler of line 161, which ends the loop.
ExamEntry ==
  /\ pc = "exam_entry"
  /\ entry <= Len(zip.filelist)
  /\ LET filename == zip.filelist[entry]
         head == out \o << Line("File", << >>, filename),
                           Line("Size", << >>, filename) >>
     IN IF IsMetadataPng(filename)
        THEN \E o \in EntryOutcomes :
               /\ written' =
                    IF o = "ok"
                    THEN WriteFile(written, ThumbnailsDir, basename(filename),
                                   EntryData(cur, filename))
                    ELSE IF o = "read_fail"
                    THEN WriteFile(written, ThumbnailsDir, basename(filename),
                                   EmptyData)
                    ELSE written
               /\ out' = IF o = "ok"
                         THEN head \o << Line("Extracted to", << >>, basename(filename)),
                                         Line("Blank", << >>, filename) >>
                         ELSE Append(head, Line("Error examining ZIP", << >>, cur))
               /\ entry' = IF o = "ok" THEN entry + 1 ELSE entry
               /\ pc' = IF o = "ok" THEN pc ELSE "exam_exit"
        ELSE /\ written' = written
             /\ out' = Append(head, Line("Blank", << >>, filename))
             /\ entry' = entry + 1
             /\ pc' = pc
  /\ UNCHANGED <<prog, connected, files, idx, cur, tmpCount, tmpFiles, zip,
                 todo, exc, result, dirs, thumbnails, log, attempts, outcomes,
                 before, stack, remote, calls, faults>>

\* The loop of line 144 ends.
ExamEntryDone ==
  /\ pc = "exam_entry"
  /\ entry > Len(zip.filelist)
  /\ pc' = "exam_exit"
  /\ UNCHANGED <<prog, connected, files, idx, cur, tmpCount, tmpFiles, zip,
                 todo, entry, exc, result, dirs, written, thumbnails, log,
                 out, attempts, outcomes, before, stack, remote, calls, faults>>

\* Leaving the with block of line 135, then returning or raising.
ExamExit ==
  /\ pc = "exam_exit"
  /\ tmpFiles' = TempFileExit(tmpFiles, tmpCount, exc # "none")
  /\ result' = IF exc = "none" THEN "returned" ELSE "raised"
  /\ pc' = "done"
  /\ UNCHANGED <<prog, connected, files, idx, cur, tmpCount, zip, todo, entry,
                 exc, dirs, written, thumbnails, log, out, attempts, outcomes,
                 before, stack, remote, calls, faults>>

\* ----------------------------------------------------- extract_thumbnails
\* Line 74.
ThumbTempFile ==
  /\ pc = "thumb_tempfile"
  /\ tmpCount' = tmpCount + 1
  /\ tmpFiles' = tmpFiles \cup {tmpCount + 1}
  /\ zip' = NoContent
  /\ exc' = "none"
  /\ pc' = "thumb_download"
  /\ UNCHANGED <<prog, connected, files, idx, cur, todo, entry, result, dirs,
                 written, thumbnails, log, out, attempts, outcomes, before,
                 stack, remote, calls, faults>>

\* Lines 76-79: the download is outside the try of line 80.
ThumbDownload ==
  /\ pc = "thumb_download"
  /\ \E ok \in BOOLEAN :
       IF ok
       THEN \E c \in Contents :
              /\ zip' = c
              /\ exc' = exc
              /\ thumbnails' = << >>
              /\ pc' = "thumb_openzip"
       ELSE /\ zip' = zip
            /\ exc' = "download"
            /\ thumbnails' = thumbnails
            /\ pc' = "thumb_exit"
  /\ UNCHANGED <<prog, connected, files, idx, cur, tmpCount, tmpFiles, todo,
                 entry, result, dirs, written, log, out, attempts, outcomes,
                 before, stack, remote, calls, faults>>

\* Lines 80-81 and 89-90.
ThumbOpenZip ==
  /\ pc = "thumb_openzip"
  /\ IF zip.kind = "zip"
     THEN /\ entry' = 1
          /\ out' = out
          /\ pc' = "thumb_entry"
     ELSE /\ entry' = entry
          /\ out' = Append(out, Line("Error processing ZIP", << >>, cur))
          /\ pc' = "thumb_exit"
  /\ UNCHANGED <<prog, connected, files, idx, cur, tmpCount, tmpFiles, zip,
                 todo, exc, result, dirs, written, thumbnails, log, attempts,
                 outcomes, before, stack, remote, calls, faults>>

\* Lines 83-88: one name of zip_file.namelist(); reading or decoding the
\* image may raise, which the handler of line 89 catches.
ThumbEntry ==
  /\ pc = "thumb_entry"
  /\ entry <= Len(zip.filelist)
  /\ LET filename == zip.filelist[entry]
     IN IF IsThumbnail(filename)
        THEN \E ok \in BOOLEAN :
               /\ thumbnails' = IF ok
                                THEN Append(thumbnails, EntryData(cur, filename))
                                ELSE thumbnails
               /\ out' = IF ok THEN out
                         ELSE Append(out, Line("Error processing ZIP", << >>, cur))
               /\ entry' = IF ok THEN entry + 1 ELSE entry
               /\ pc' = IF ok THEN pc ELSE "thumb_exit"
        ELSE /\ thumbnails' = thumbnails
             /\ out' = out
             /\ entry' = entry + 1
             /\ pc' = pc
  /\ UNCHANGED <<prog, connected, files, idx, cur, tmpCount, tmpFiles, zip,
                 todo, exc, result, dirs, written, log, attempts, outcomes,
                 before, stack, remote, calls, faults>>

\* The loop of line 83 ends.
ThumbEntryDone ==
  /\ pc = "thumb_entry"
  /\ entry > Len(zip.filelist)
  /\ pc' = "thumb_exit"
  /\ UNCHANGED <<prog, connected, files, idx, cur, tmpCount, tmpFiles, zip,
                 todo, entry, exc, result, dirs, written, thumbnails, log,
                 out, attempts, outcomes, before, stack, remote, calls, faults>>

\* Line 92 and leaving the with block of line 74.
ThumbExit ==
  /\ pc = "thumb_exit"
  /\ tmpFiles' = TempFileExit(tmpFiles, tmpCount, exc # "none")
  /\ result' = IF exc = "none" THEN "returned" ELSE "raised"
  /\ pc' = "done"
  /\ UNCHANGED <<prog, connected, files, idx, cur, tmpCount, zip, todo, entry,
                 exc, dirs, written, thumbnails, log, out, attempts, outcomes,
                 before, stack, remote, calls, faults>>

NextBatch ==
  \/ Main
  \/ L3mfConnect \/ L3mfList \/ L3mfLoop \/ L3mfAfter
  \/ ErfMakedirs \/ ErfTempFile \/ ErfDownload \/ ErfOpenZip
  \/ ErfExtract \/ ErfExtractDone \/ ErfExit

NextSingle ==
  \/ ExamMakedirs \/ ExamTempFile \/ ExamDownload \/ ExamOpenZip
  \/ ExamEntry \/ ExamEntryDone \/ ExamExit
  \/ ThumbTempFile \/ ThumbDownload \/ ThumbOpenZip
  \/ ThumbEntry \/ ThumbEntryDone \/ ThumbExit

Next == NextBatch \/ NextSingle

Spec == Init /\ [][Next]_vars
\* =================================================================
\* Properties of the download-and-process procedures (Spec)
\* =================================================================
HasLog(level, msg, subject) ==
  \E k \in 1..Len(log) :
    log[k].level = level /\ log[k].msg = msg /\ log[k].subject = subject

HasLine(kind) == \E k \in 1..Len(out) : out[k].kind = kind

\* The entry names of a downloaded archive.
ArchiveNames(z) == { z.filelist[k] : k \in 1..Len(z.filelist) }

\* The required-extraction set as the specification names it.
RequiredSet == {PLATE, TOP, SETTINGS}

\* The files of one output directory.
InDir(d) == { w \in written : w.dir = d }

\* No earlier call of extract_required_files used the output directory of
\* the current one.
FirstIntoDir ==
  \A k \in 1..(Len(attempts) - 1) : base_name(attempts[k]) # base_name(cur)

\* An earlier call used the same output directory and returned normally.
SecondIntoDir ==
  \E k \in 1..(Len(attempts) - 1) :
    base_name(attempts[k]) = base_name(cur) /\ outcomes[k] = "returned"

\* C1: once a download-and-process procedure has returned or raised, and
\* once the script has ended, no temporary file exists, whatever the
\* download and the archive processing did.
C1_TempFileDeleted ==
  /\ result # "none" => tmpFiles = {}
  /\ pc = "done" => tmpFiles = {}
  /\ tmpFiles \subseteq {tmpCount}

\* C1 witness: extract_required_files raised out of the archive processing
\* and its temporary file is gone.
C1_Witness ==
  /\ result = "raised" /\ exc = "entry"
  /\ tmpCount >= 1 /\ tmpFiles = {}

\* C2 as claimed: after a download that is no ZIP archive, every procedure
\* has reported an error and returned without raising, and an output
\* directory nothing was extracted into before holds no file.
C2_MalformedArchiveReturnsQuietly ==
  (result # "none" /\ zip.kind = "notzip") =>
    /\ result = "returned"
    /\ \/ HasLog("ERROR", "Failed to process", cur)
       \/ HasLine("Error examining ZIP")
       \/ HasLine("Error processing ZIP")
    /\ prog = "examine_3mf_structure" => InDir(ThumbnailsDir) = {}
    /\ (OpensConnection(prog) /\ FirstIntoDir) => InDir(base_name(cur)) = {}

\* C3: when extract_required_files returns from an archive and its output
\* directory was not used before, the directory exists and holds exactly
\* one file per required name present in the archive, named by the entry's
\* base name and holding the entry's bytes, and nothing for other entries;
\* and when the downloaded archive has no required entry, the call has
\* returned without raising, its directory exists, and the directory is
\* empty if it was not used before.
C3_ExactlyRequiredWritten ==
  /\ (pc = "l3mf_after" /\ result = "returned" /\ FirstIntoDir) =>
       LET d == base_name(cur)
           K == RequiredSet \cap ArchiveNames(zip)
       IN /\ d \in dirs
          /\ InDir(d) = { [dir |-> d, name |-> basename(f), data |-> EntryData(cur, f)] :
                            f \in K }
          /\ Cardinality(InDir(d)) = Cardinality(K)
  /\ (pc = "l3mf_after" /\ zip.kind = "zip"
        /\ RequiredSet \cap ArchiveNames(zip) = {}) =>
       /\ result = "returned"
       /\ exc = "none"
       /\ outcomes[Len(outcomes)] = "returned"
       /\ base_name(cur) \in dirs
       /\ FirstIntoDir => InDir(base_name(cur)) = {}

\* C3 witness: a call on an archive without a required entry returned and
\* left its new directory empty; then a call on an archive with two
\* required entries, and a non-required entry whose base name is that of
\* the missing required one, returned with two files in its directory.
C3_Witness ==
  /\ pc = "l3mf_after" /\ result = "returned" /\ FirstIntoDir
  /\ Cardinality(RequiredSet \cap ArchiveNames(zip)) = 2
  /\ AUXTHUMB \in ArchiveNames(zip) /\ PLATE \notin ArchiveNames(zip)
  /\ Cardinality(InDir(base_name(cur))) = 2
  /\ Len(attempts) = 2 /\ outcomes[1] = "returned"
  /\ base_name(attempts[1]) \in dirs
  /\ InDir(base_name(attempts[1])) = {}

\* C4: extract_required_files is called for the listed files in listing
\* order, once each; when list_3mf_files ends after a listing, every listed
\* file was attempted whatever happened to the earlier ones, and every
\* failed attempt was logged.
C4_EveryListedFileAttempted ==
  OpensConnection(prog) =>
    /\ Len(attempts) <= Len(files)
    /\ attempts = SubSeq(files, 1, Len(attempts))
    /\ (pc = "done" /\ \E k \in 1..Len(log) : log[k].msg = "Found") =>
         /\ attempts = files
         /\ Len(outcomes) = Len(files)
         /\ \A k \in 1..Len(files) :
              outcomes[k] = "raised" => HasLog("ERROR", "Failed to process", files[k])

\* C4 witness: a batch of two files ended, the first file failed and the
\* second was processed.
C4_Witness ==
  /\ OpensConnection(prog) /\ pc = "done"
  /\ Len(files) = 2 /\ attempts = files
  /\ outcomes = <<"raised", "returned">>

\* C9: when extract_required_files returns for an archive whose output
\* directory an earlier archive of the same base name was extracted into,
\* every required entry of the later archive holds the later archive's
\* bytes, every file the call found and did not rewrite is unchanged, and
\* the directory holds only base names of the required set.
C9_SameBaseNameLastWriteWins ==
  (pc = "l3mf_after" /\ result = "returned" /\ SecondIntoDir) =>
    LET d == base_name(cur)
        K == RequiredSet \cap ArchiveNames(zip)
        new == { basename(f) : f \in K }
    IN /\ \A f \in K :
            { w \in InDir(d) : w.name = basename(f) } =
              { [dir |-> d, name |-> basename(f), data |-> EntryData(cur, f)] }
       /\ \A w \in before : (w.dir # d \/ w.name \notin new) => w \in written
       /\ \A w \in InDir(d) : w.name \in { basename(f) : f \in RequiredSet }

\* C9 witness: the second archive rewrote one file of the first and lacked
\* another, which is still there with the first archive's bytes.
C9_Witness ==
  /\ pc = "l3mf_after" /\ result = "returned" /\ SecondIntoDir
  /\ LET d == base_name(cur)
         new == { basename(f) : f \in RequiredSet \cap ArchiveNames(zip) }
     IN /\ \E w \in before : w.dir = d /\ w.name \in new /\ w \notin written
        /\ \E w \in before : w.dir = d /\ w.name \notin new /\ w.data # EmptyData
                             /\ w \in written

\* ------------------------------------------------ list_printer_filesystem
\* Names of remote files and directories, in alphabetical order.
NameOrder == <<"a", "b", "c">>
Names == { NameOrder[k] : k \in 1..Len(NameOrder) }
Rank(name) == CHOOSE k \in 1..Len(NameOrder) : NameOrder[k] = name

\* A remote path is the sequence of its components; "/" is << >>.
\* f"{path.rstrip('/')}/{item.name}".replace("//", "/")
full_path(path, name) == Append(path, name)

\* Mutant of sorted: the items stay in listing order.
unsorted(s) == s

\* sorted(...) of items of one directory: by name (the names of one
\* listing differ, so the size in the tuples of line 190 is never compared).
sorted(s) == SortSeq(s, LAMBDA x, y : Rank(x) < Rank(y))

\* The prefix strings of line 177, 197 and 206, character by character.
\* "VBAR" is the vertical bar, "TEE" the interior-sibling glyph, "ELL" the
\* last-sibling glyph and "DASH" the horizontal bar.
BarCell == <<" ", " ", "VBAR", " ", " ", " ">>
TeeCell == <<" ", " ", "TEE", "DASH", "DASH", " ">>
EllCell == <<" ", " ", "ELL", "DASH", "DASH", " ">>

RECURSIVE Repeat(_, _)
Repeat(s, n) == IF n <= 0 THEN << >> ELSE s \o Repeat(s, n - 1)

\* Line 177.
indent(level) == IF level > 0 THEN Repeat(BarCell, level - 1) \o TeeCell ELSE << >>

\* s[:-4]
DropLast4(s) == SubSeq(s, 1, IF Len(s) > 4 THEN Len(s) - 4 ELSE 0)

\* Lines 197 and 206.
entry_indent(level, is_last) ==
  IF is_last THEN DropLast4(indent(level)) \o EllCell ELSE indent(level)

\* Line 196.
dir_is_last(i, ds, fs) == i = Len(ds) /\ fs = << >>
\* Line 205.
file_is_last(i, fs) == i = Len(fs)

\* Mutant of classify: an item whose size query raises is dropped.
classify_drop_failed(f, name, ok) ==
  IF ok
  THEN [f EXCEPT !.files = Append(@, name), !.i = @ + 1]
  ELSE [f EXCEPT !.i = @ + 1]

\* Lines 189-192: the item joins files when the size query succeeds and
\* dirs when it raises.
classify(f, name, ok) ==
  IF ok
  THEN [f EXCEPT !.files = Append(@, name), !.i = @ + 1]
  ELSE [f EXCEPT !.dirs = Append(@, name), !.i = @ + 1]

\* Mutant of CatchReadError: the exception leaves every active call.
PropagateReadError(st) == << >>

\* Lines 211-212: the handler ends this call of print_directory_tree only;
\* the calls below it on the stack go on.
CatchReadError(st) == SubSeq(st, 1, Len(st) - 1)

Frame(path, level) ==
  [path |-> path, level |-> level, phase |-> "list", items |-> << >>,
   i |-> 1, dirs |-> << >>, files |-> << >>]

Top == stack[Len(stack)]
SetTop(f) == [stack EXCEPT ![Len(stack)] = f]
Pop == SubSeq(stack, 1, Len(stack) - 1)

Node(path, kind) == [path |-> path, kind |-> kind]
Call(op, path) == [op |-> op, path |-> path]
IsDir(path) == Node(path, "dir") \in remote

\* What list_files can return for a directory: its children in any order,
\* each a file or a directory, as long as the tree stays within MaxNodes.
ChildListings(room) ==
  { c \in [names : SeqsNoDup(Names, room), kinds : SUBSET Names] :
      c.kinds \subseteq { c.names[k] : k \in 1..Len(c.names) } }

InitWalk ==
  /\ prog = "list_printer_filesystem"
  /\ pc = "lpf_connect"
  /\ connected = FALSE
  /\ files = << >>
  /\ idx = 0
  /\ cur = NoPath
  /\ tmpCount = 0
  /\ tmpFiles = {}
  /\ zip = NoContent
  /\ todo = {}
  /\ entry = 0
  /\ exc = "none"
  /\ result = "none"
  /\ dirs = {}
  /\ written = {}
  /\ thumbnails = << >>
  /\ log = << >>
  /\ out = << >>
  /\ attempts = << >>
  /\ outcomes = << >>
  /\ before = {}
  /\ stack = << >>
  /\ remote = {Node(<< >>, "dir")}
  /\ calls = << >>
  /\ faults = {}

\* Lines 214-218 and 221-227.
LpfConnect ==
  /\ pc = "lpf_connect"
  /\ \E ok \in BOOLEAN :
       IF ok
       THEN /\ connected' = TRUE
            /\ out' = out \o << Line("Scanning", << >>, << >>),
                                Line("Rule", << >>, << >>) >>
            /\ stack' = << Frame(<< >>, 0) >>
            /\ pc' = "walk"
       ELSE /\ connected' = FALSE
            /\ out' = out \o << Line("Error", << >>, "connect"),
                                Line("Please verify", << >>, << >>),
                                Line("Hint", << >>, "powered on"),
                                Line("Hint", << >>, "IP address"),
                                Line("Hint", << >>, "access code"),
                                Line("Hint", << >>, "same network") >>
            /\ stack' = stack
            /\ pc' = "done"
  /\ UNCHANGED <<prog, files, idx, cur, tmpCount, tmpFiles, zip, todo, entry,
                 exc, result, dirs, written, thumbnails, log, attempts,
                 outcomes, before, remote, calls, faults>>

\* Line 180: ftp.list_files(path, None); on failure line 212.
WalkList ==
  /\ pc = "walk" /\ stack # << >> /\ Top.phase = "list"
  /\ calls' = Append(calls, Call("list_files", Top.path))
  /\ \E ok \in BOOLEAN :
       IF ok
       THEN \E c \in IF IsDir(Top.path)
                     THEN ChildListings(MaxNodes + 1 - Cardinality(remote))
                     ELSE {[names |-> << >>, kinds |-> {}]} :
              /\ remote' = remote \cup
                   { Node(full_path(Top.path, c.names[k]),
                          IF c.names[k] \in c.kinds THEN "dir" ELSE "file") :
                       k \in 1..Len(c.names) }
              /\ stack' = SetTop([Top EXCEPT !.items = c.names, !.phase = "classify"])
              /\ out' = out
              /\ faults' = faults
       ELSE /\ remote' = remote
            /\ stack' = CatchReadError(stack)
            /\ out' = Append(out, Line("Error reading", indent(Top.level), Top.path))
            /\ faults' = faults \cup {Call("list_files", Top.path)}
  /\ UNCHANGED <<prog, pc, connected, files, idx, cur, tmpCount, tmpFiles,
                 zip, todo, entry, exc, result, dirs, written, thumbnails,
                 log, attempts, outcomes, before>>

\* Lines 185-192: one item; a failing size query makes it a directory.
WalkClassify ==
  /\ pc = "walk" /\ stack # << >> /\ Top.phase = "classify"
  /\ Top.i <= Len(Top.items)
  /\ LET name == Top.items[Top.i]
         p == full_path(Top.path, name)
     IN /\ calls' = Append(calls, Call("get_file_size", p))
        /\ \E ok \in IF IsDir(p) THEN {FALSE} ELSE BOOLEAN :
             /\ stack' = SetTop(classify(Top, name, ok))
             /\ faults' = IF ~ok /\ ~IsDir(p)
                          THEN faults \cup {Call("get_file_size", p)}
                          ELSE faults
  /\ UNCHANGED <<prog, pc, connected, files, idx, cur, tmpCount, tmpFiles,
                 zip, todo, entry, exc, result, dirs, written, thumbnails,
                 log, out, attempts, outcomes, before, remote>>

\* The loop of line 185 ends; lines 195 and 204 sort.
WalkClassifyDone ==
  /\ pc = "walk" /\ stack # << >> /\ Top.phase = "classify"
  /\ Top.i > Len(Top.items)
  /\ stack' = SetTop([Top EXCEPT !.phase = "dirs", !.i = 1,
                                 !.dirs = sorted(@), !.files = sorted(@)])
  /\ UNCHANGED <<prog, pc, connected, files, idx, cur, tmpCount, tmpFiles,
                 zip, todo, entry, exc, result, dirs, written, thumbnails,
                 log, out, attempts, outcomes, before, remote, calls, faults>>

\* Lines 195-201: print one directory and walk into it.
WalkDir ==
  /\ pc = "walk" /\ stack # << >> /\ Top.phase = "dirs"
  /\ Top.i <= Len(Top.dirs)
  /\ LET name == Top.dirs[Top.i]
         is_last == dir_is_last(Top.i, Top.dirs, Top.files)
         next_path == full_path(Top.path, name)
     IN /\ out' = Append(out, Line("dir", entry_indent(Top.level, is_last), next_path))
        /\ stack' = Append(SetTop([Top EXCEPT !.i = @ + 1]),
                           Frame(next_path, Top.level + 1))
  /\ UNCHANGED <<prog, pc, connected, files, idx, cur, tmpCount, tmpFiles,
                 zip, todo, entry, exc, result, dirs, written, thumbnails,
                 log, attempts, outcomes, before, remote, calls, faults>>

\* The loop of line 195 ends.
WalkDirsDone ==
  /\ pc = "walk" /\ stack # << >> /\ Top.phase = "dirs"
  /\ Top.i > Len(Top.dirs)
  /\ stack' = SetTop([Top EXCEPT !.phase = "files", !.i = 1])
  /\ UNCHANGED <<prog, pc, connected, files, idx, cur, tmpCount, tmpFiles,
                 zip, todo, entry, exc, result, dirs, written, thumbnails,
                 log, out, attempts, outcomes, before, remote, calls, faults>>

\* Lines 204-209: one file; a failing date query reaches line 212.
WalkFile ==
  /\ pc = "walk" /\ stack # << >> /\ Top.phase = "files"
  /\ Top.i <= Len(Top.files)
  /\ LET name == Top.files[Top.i]
         is_last == file_is_last(Top.i, Top.files)
         p == full_path(Top.path, name)
     IN /\ calls' = Append(calls, Call("get_file_date", p))
        /\ \E ok \in BOOLEAN :
             IF ok
             THEN /\ out' = Append(out, Line("file", entry_indent(Top.level, is_last), p))
                  /\ stack' = SetTop([Top EXCEPT !.i = @ + 1])
                  /\ faults' = faults
             ELSE /\ out' = Append(out, Line("Error reading", indent(Top.level), Top.path))
                  /\ stack' = CatchReadError(stack)
                  /\ faults' = faults \cup {Call("get_file_date", p)}
  /\ UNCHANGED <<prog, pc, connected, files, idx, cur, tmpCount, tmpFiles,
                 zip, todo, entry, exc, result, dirs, written, thumbnails,
                 log, attempts, outcomes, before, remote>>

\* The loop of line 204 ends: print_directory_tree returns.
WalkReturn ==
  /\ pc = "walk" /\ stack # << >> /\ Top.phase = "files"
  /\ Top.i > Len(Top.files)
  /\ stack' = Pop
  /\ UNCHANGED <<prog, pc, connected, files, idx, cur, tmpCount, tmpFiles,
                 zip, todo, entry, exc, result, dirs, written, thumbnails,
                 log, out, attempts, outcomes, before, remote, calls, faults>>

\* Line 219 and leaving the with block of line 215.
LpfFinish ==
  /\ pc = "walk" /\ stack = << >>
  /\ out' = Append(out, Line("Rule", << >>, << >>))
  /\ connected' = FALSE
  /\ pc' = "done"
  /\ UNCHANGED <<prog, files, idx, cur, tmpCount, tmpFiles, zip, todo, entry,
                 exc, result, dirs, written, thumbnails, log, attempts,
                 outcomes, before, stack, remote, calls, faults>>

NextWalk ==
  \/ LpfConnect \/ WalkList \/ WalkClassify \/ WalkClassifyDone
  \/ WalkDir \/ WalkDirsDone \/ WalkFile \/ WalkReturn \/ LpfFinish

WalkSpec == InitWalk /\ [][NextWalk]_vars

\* print_directory_tree runs to its end: the script has one thread and each
\* remote call returns or raises.
WalkLiveSpec == WalkSpec /\ WF_vars(NextWalk)

\* =================================================================
\* Properties of the remote tree walker (WalkSpec, WalkLiveSpec)
\* =================================================================
Parent(p) == SubSeq(p, 1, Len(p) - 1)
IsPrefixPath(d, p) == Len(d) <= Len(p) /\ SubSeq(p, 1, Len(d)) = d

\* Indices of the printed lines of entries, and of all lines of the walker.
EntryIdx == { k \in 1..Len(out) : out[k].kind \in {"dir", "file"} }
WalkIdx == { k \in 1..Len(out) : out[k].kind \in {"dir", "file", "Error reading"} }

\* The directory whose call of print_directory_tree printed line k.
Home(k) == IF out[k].kind = "Error reading" THEN out[k].subject
           ELSE Parent(out[k].subject)

HasEntryLine(kind, p) ==
  \E k \in 1..Len(out) : out[k].kind = kind /\ out[k].subject = p

\* The children of directory d the walker classified as directories (their
\* size query raised) and as files (it succeeded).
Children(d) == { n \in remote : n.path # << >> /\ Parent(n.path) = d }
ClassifiedDir(n) == n.kind = "dir" \/ Call("get_file_size", n.path) \in faults
DirNames(d) == { n.path[Len(n.path)] : n \in { c \in Children(d) : ClassifiedDir(c) } }
FileNames(d) == { n.path[Len(n.path)] : n \in { c \in Children(d) : ~ClassifiedDir(c) } }

InNameOrder(S) == SelectSeq(NameOrder, LAMBDA x : x \in S)

\* The entry lines a complete print of directory d consists of: its
\* directories in alphabetical order, then its files in alphabetical order.
Expected(d) ==
  [ k \in 1..Cardinality(DirNames(d)) |->
      [kind |-> "dir", path |-> Append(d, InNameOrder(DirNames(d))[k])] ]
  \o
  [ k \in 1..Cardinality(FileNames(d)) |->
      [kind |-> "file", path |-> Append(d, InNameOrder(FileNames(d))[k])] ]

\* The entry lines printed for the children of d, in print order.
RECURSIVE LinesFrom(_, _)
LinesFrom(d, k) ==
  IF k > Len(out) THEN << >>
  ELSE IF out[k].kind \in {"dir", "file"} /\ Parent(out[k].subject) = d
       THEN << [kind |-> out[k].kind, path |-> out[k].subject] >> \o LinesFrom(d, k + 1)
       ELSE LinesFrom(d, k + 1)
Printed(d) == LinesFrom(d, 1)

\* No date query of a file of d raised.
NoDateFault(d) ==
  \A c \in Children(d) : Call("get_file_date", c.path) \notin faults

\* No date query raised for a file of d that sorts at or before name.
NoDateFaultUpTo(d, name) ==
  \A c \in Children(d) :
    Rank(c.path[Len(c.path)]) <= Rank(name) =>
      Call("get_file_date", c.path) \notin faults

Listed(d) == \E k \in 1..Len(calls) : calls[k] = Call("list_files", d)

\* C5 as claimed, for the tree walker: a failing remote call affects only
\* its own item, so when the walk has ended every file whose own date query
\* did not raise has its line, and every directory has its line.
C5_FailureAffectsOneItemOnly ==
  pc = "done" =>
    \A n \in remote :
      n.path # << >> =>
        IF ClassifiedDir(n)
        THEN HasEntryLine("dir", n.path)
        ELSE Call("get_file_date", n.path) \notin faults => HasEntryLine("file", n.path)

\* C6: when the walk has ended, every directory whose listing raised has an
\* error line naming its path, every sibling directory was printed and
\* walked into, and every sibling file was printed unless a date query of
\* that level raised first.
C6_ListFailureSparesSiblings ==
  pc = "done" =>
    \A c \in faults :
      c.op = "list_files" =>
        /\ HasEntryLine("Error reading", c.path)
        /\ c.path # << >> =>
             \A n \in Children(Parent(c.path)) :
               n.path # c.path =>
                 IF ClassifiedDir(n)
                 THEN HasEntryLine("dir", n.path) /\ Listed(n.path)
                 ELSE NoDateFaultUpTo(Parent(c.path), n.path[Len(n.path)])
                        => HasEntryLine("file", n.path)

\* C6 witness: the listing of a directory raised; a directory that sorts
\* after it and a file of the same level were printed.
C6_Witness ==
  /\ pc = "done"
  /\ \E c \in faults :
       /\ c.op = "list_files" /\ c.path # << >>
       /\ \E n, m \in Children(Parent(c.path)) :
            /\ n.kind = "dir" /\ Rank(n.path[Len(n.path)]) > Rank(c.path[Len(c.path)])
            /\ HasEntryLine("dir", n.path) /\ Listed(n.path)
            /\ m.kind = "file" /\ HasEntryLine("file", m.path)

\* C7: at every moment the entry lines printed for a directory are an
\* initial part of: its directories in alphabetical order, then its files
\* in alphabetical order; they are all of it once the walk has ended, unless
\* a date query of that directory raised; and the lines of a directory's
\* subtree follow its own line directly, nothing else in between.
C7_DirsThenFilesDepthFirst ==
  /\ \A n \in remote :
       LET d == n.path
       IN /\ Len(Printed(d)) <= Len(Expected(d))
          /\ Printed(d) = SubSeq(Expected(d), 1, Len(Printed(d)))
          /\ (pc = "done" /\ Listed(d) /\ Call("list_files", d) \notin faults
                /\ NoDateFault(d)) => Printed(d) = Expected(d)
  /\ \A j \in WalkIdx :
       \A len \in 1..Len(Home(j)) :
         LET d == SubSeq(Home(j), 1, len)
         IN \E i \in 1..(j - 1) :
              /\ out[i].kind = "dir" /\ out[i].subject = d
              /\ \A m \in (i + 1)..j : m \in WalkIdx /\ IsPrefixPath(d, Home(m))

\* C7 witness: at the root a directory, then a line of its subtree, then a
\* file whose name sorts before the directory's.
C7_Witness ==
  /\ pc = "done"
  /\ \E i, j, k \in EntryIdx :
       /\ i < j /\ j < k
       /\ out[i].kind = "dir" /\ Len(out[i].subject) = 1
       /\ Parent(out[j].subject) = out[i].subject
       /\ out[k].kind = "file" /\ Len(out[k].subject) = 1
       /\ Rank(out[k].subject[1]) < Rank(out[i].subject[1])

HasGlyph(prefix, glyph) == \E k \in 1..Len(prefix) : prefix[k] = glyph

\* C8 as claimed, for walks in which no remote call raised but the size
\* queries on directories: entries of the same depth are printed at the
\* same indentation width, a deeper entry at a greater width, and when the
\* walk has ended exactly the last line of each directory carries the
\* last-sibling glyph and every other line the interior-sibling glyph.
C8_SiblingsShareIndentation ==
  faults = {} =>
    /\ \A i, j \in EntryIdx :
         /\ Len(Home(i)) = Len(Home(j)) => Len(out[i].prefix) = Len(out[j].prefix)
         /\ Len(Home(i)) < Len(Home(j)) => Len(out[i].prefix) < Len(out[j].prefix)
    /\ pc = "done" =>
         \A i \in EntryIdx :
           LET d == Home(i)
               last == out[i].subject = Expected(d)[Len(Expected(d))].path
           IN /\ HasGlyph(out[i].prefix, "ELL") <=> last
              /\ HasGlyph(out[i].prefix, "TEE") <=> ~last

NoRepeatedCall ==
  \A i, j \in 1..Len(calls) : i # j => calls[i] # calls[j]

\* Every directory was listed, and every file and directory below the root
\* has exactly one line, of its kind; no other line was printed for entries.
Covered ==
  /\ \A n \in remote : n.kind = "dir" => Listed(n.path)
  /\ \A n \in remote :
       n.path # << >> =>
         Cardinality({ k \in EntryIdx : out[k].subject = n.path }) = 1
  /\ \A k \in EntryIdx : Node(out[k].subject, out[k].kind) \in remote
  /\ \A k \in 1..Len(out) : out[k].kind # "Error reading"

\* C10: the walk ends; no remote call is made twice for the same path; and
\* when the walk has ended and no call raised but the size queries on
\* directories, every directory was listed once and every entry of the tree
\* has exactly one line.
C10_WalkTerminatesAndCovers ==
  /\ <>(pc = "done")
  /\ [](NoRepeatedCall)
  /\ []((pc = "done" /\ HasLine("Scanning") /\ faults = {}) => Covered)

\* C10 witness: a walk without a raised call has ended on a tree with a
\* directory inside a directory.
C10_Witness ==
  /\ pc = "done" /\ HasLine("Scanning") /\ faults = {}
  /\ Cardinality(remote) >= 4
  /\ \E n \in remote : Len(n.path) = 2

====
